---- MODULE Spec2Model ----
(***************************************************************************)
(* A model of the linear bus route simulation (busstop/linear.py on top of  *)
(* the containers of busstop/objects.py).  The variable `model` is the      *)
(* LinearBusRouteModel object: route bounds, stops, buses, rates, the       *)
(* spawn counter and the BusPassenger objects it can reach.  Passengers     *)
(* are Python objects with identity: containers hold references (indices    *)
(* into model.heap), so one passenger object held by two lists is one       *)
(* object with one patience.                                                *)
(*                                                                          *)
(* events, lastOp, pre and calls are history variables: the list returned   *)
(* by the last call, which call it was, the object before that call, and    *)
(* the stop_at invocations made during it.  mark is an observer's bookmark: *)
(* at most once in a run, after an update() that leaves the network idle    *)
(* (and all of its buses with a fixed speed, so that update() draws no      *)
(* random number), it records the object, and from then on whether a later  *)
(* update() has run and whether one of them returned [].  A run that comes  *)
(* back to the bookmarked object has closed a cycle that update() then      *)
(* repeats for ever.  waited counts, for a bus of fixed speed and a stop,    *)
(* the update() calls since that bus last stopped at that stop.             *)
(***************************************************************************)
EXTENDS FiniteSets, Integers, Sequences, TLC

VARIABLES model, events, lastOp, pre, calls, mark, waited

vars == <<model, events, lastOp, pre, calls, mark, waited>>

(***************************************************************************)
(* Bounds of the scenarios explored.                                        *)
(***************************************************************************)
RouteEnd == 2        \* the route is [RouteStart, RouteEnd]
MaxBuses == 2        \* 0 .. MaxBuses buses on the route
MaxSpeed == 2        \* fixed speeds 1 .. MaxSpeed; max_speed of a randomised bus
MaxCapacity == 1     \* capacities -1 (unlimited) .. MaxCapacity
MaxPatience == 2     \* initial patience 0 .. MaxPatience
MaxSpawn == 2        \* passengers spawned before spawning is cut off
MaxOvershoot == 3    \* randomised buses are kept within this distance of the route

RouteStart == 0
RateScale == 2       \* random.random() is drawn from {0/RateScale .. (RateScale-1)/RateScale}

\* passenger_num before init() has run: the attribute does not exist yet.
Unset == -1

Max(a, b) == IF a >= b THEN a ELSE b
Min(a, b) == IF a <= b THEN a ELSE b

StopName(i) == <<"stop", i>>
BusName(j) == <<"bus", j>>
GivenName(k) == <<"passenger", k>>

\* Every spawned passenger given the same name.
RandomName_Constant(n) == <<"random", 0>>

\* 'random' + str(self.passenger_num)
RandomName(n) == <<"random", n>>

(***************************************************************************)
(* Python list slicing, lst[:n] and lst[n:], with Python's treatment of a   *)
(* negative or too large bound.                                             *)
(***************************************************************************)
SliceIndex(s, n) == IF n < 0 THEN Max(Len(s) + n, 0) ELSE Min(n, Len(s))

PySliceTo(s, n) == SubSeq(s, 1, SliceIndex(s, n))

PySliceFrom(s, n) == SubSeq(s, SliceIndex(s, n) + 1, Len(s))

\* BusPassenger(name, source, destination).  The patience attribute that
\* linear.py reads is not set by the constructor in objects.py; a new
\* passenger starts with NewPatience.
NewPatience == 2

BusPassenger(name, source, destination) ==
    [name |-> name, source |-> source, destination |-> destination,
     patience |-> NewPatience]

(***************************************************************************)
(* LinearBusRouteModel.init                                                 *)
(***************************************************************************)
RECURSIVE Flatten(_)
Flatten(ss) == IF ss = <<>> THEN <<>> ELSE Head(ss) \o Flatten(Tail(ss))

WaitsEvents(self, stop) ==
    [k \in 1..Len(stop.passengers) |->
        <<"waits", self.heap[stop.passengers[k]].name, stop.name>>]

BoardsEvents(self, bus) ==
    [k \in 1..Len(bus.passengers) |->
        <<"boards", self.heap[bus.passengers[k]].name, bus.name>>]

\* The initial events with the vehicles listed before the stops.
init_BusesFirst(self) ==
    [self |-> [self EXCEPT !.passenger_num = 0],
     events |-> Flatten([j \in 1..Len(self.buses) |-> BoardsEvents(self, self.buses[j])])
                \o Flatten([i \in 1..Len(self.stops) |-> WaitsEvents(self, self.stops[i])])]

init(self) ==
    [self |-> [self EXCEPT !.passenger_num = 0],
     events |-> Flatten([i \in 1..Len(self.stops) |-> WaitsEvents(self, self.stops[i])])
                \o Flatten([j \in 1..Len(self.buses) |-> BoardsEvents(self, self.buses[j])])]

(***************************************************************************)
(* LinearBusRouteModel.stop_at: bus j stops at stop i.                      *)
(***************************************************************************)
\* The passengers who came from the stop alight, not those bound for it.
Leaving_BySource(self, bus, stop) ==
    SelectSeq(bus.passengers, LAMBDA p : self.heap[p].source = stop.name)

Leaving(self, bus, stop) ==
    SelectSeq(bus.passengers, LAMBDA p : self.heap[p].destination = stop.name)

Staying(self, bus, stop) ==
    SelectSeq(bus.passengers, LAMBDA p : self.heap[p].destination # stop.name)

\* A boarding count that is one too large.
BoardingCount_OneMore(bus, staying) == bus.capacity - Len(staying) + 1

BoardingCount(bus, staying) == bus.capacity - Len(staying)

\* Boarding from the back of the queue instead of the front.
Boarding_FromBack(bus, stop, count) ==
    IF bus.capacity >= 0
    THEN SubSeq(stop.passengers,
                Len(stop.passengers) - SliceIndex(stop.passengers, count) + 1,
                Len(stop.passengers))
    ELSE stop.passengers

Boarding(bus, stop, count) ==
    IF bus.capacity >= 0 THEN PySliceTo(stop.passengers, count) ELSE stop.passengers

Remaining(bus, stop, count) ==
    IF bus.capacity >= 0 THEN PySliceFrom(stop.passengers, count) ELSE stop.passengers

stop_at(self, j, i) ==
    LET bus == self.buses[j]
        stop == self.stops[i]
        leaving_passengers == Leaving(self, bus, stop)
        staying_passengers == Staying(self, bus, stop)
        boarding_passengers_count == BoardingCount(bus, staying_passengers)
        boarding_passengers == Boarding(bus, stop, boarding_passengers_count)
        remaining == Remaining(bus, stop, boarding_passengers_count)
        evs == <<<<"stops", bus.name, stop.name>>>>
               \o [k \in 1..Len(leaving_passengers) |->
                      <<"alights", self.heap[leaving_passengers[k]].name, stop.name>>]
               \o [k \in 1..Len(boarding_passengers) |->
                      <<"boards", self.heap[boarding_passengers[k]].name, stop.name>>]
        after == [self EXCEPT !.buses[j].passengers = staying_passengers \o boarding_passengers,
                              !.stops[i].passengers = remaining]
    IN [self |-> after,
        events |-> evs,
        calls |-> <<[bus |-> j, stop |-> i,
                     onboard |-> bus.passengers, queue |-> stop.passengers,
                     leaving |-> leaving_passengers, boarding |-> boarding_passengers,
                     onboardAfter |-> after.buses[j].passengers,
                     queueAfter |-> after.stops[i].passengers,
                     events |-> evs,
                     restKept |-> [after EXCEPT !.buses[j].passengers = <<>>,
                                                !.stops[i].passengers = <<>>]
                                  = [self EXCEPT !.buses[j].passengers = <<>>,
                                                 !.stops[i].passengers = <<>>]]>>]

(***************************************************************************)
(* LinearBusRouteModel.update_stop_passengers_patience: every reference in  *)
(* every stop's queue has its passenger's patience lowered by one, not      *)
(* below 0.                                                                 *)
(***************************************************************************)
\* Decay without the floor at 0.
DecayOne_NoFloor(p) == [p EXCEPT !.patience = p.patience - 1]

DecayOne(p) == [p EXCEPT !.patience = Max(p.patience - 1, 0)]

RECURSIVE DecayQueue(_, _)
DecayQueue(heap, q) ==
    IF q = <<>> THEN heap
    ELSE DecayQueue([heap EXCEPT ![Head(q)] = DecayOne(heap[Head(q)])], Tail(q))

update_stop_passengers_patience(self) ==
    [self EXCEPT !.heap =
        DecayQueue(self.heap, Flatten([i \in 1..Len(self.stops) |-> self.stops[i].passengers]))]

(***************************************************************************)
(* LinearBusRouteModel.update_bus: bus j moves; `draw` is the value of      *)
(* random.randint(1, bus.max_speed), used only when bus.speed <= 0.         *)
(***************************************************************************)
\* A stop the bus starts the tick on counts as crossed.
Crosses_Inclusive(old_x, stop_x, new_x) == old_x <= stop_x /\ stop_x <= new_x

Crosses(old_x, stop_x, new_x) == old_x < stop_x /\ stop_x <= new_x

\* The stops taken from the last of the network's list to the first.
RECURSIVE VisitStops_Backwards(_, _, _, _, _)
VisitStops_Backwards(r, j, old_x, new_x, i) ==
    IF i > Len(r.self.stops) THEN r
    ELSE LET k == Len(r.self.stops) + 1 - i
             stop_x == r.self.stops[k].position[1]
         IN IF Crosses(old_x, stop_x, new_x)
            THEN LET s == stop_at(r.self, j, k) IN
                 VisitStops_Backwards([self |-> s.self, events |-> r.events \o s.events,
                                       calls |-> r.calls \o s.calls], j, old_x, new_x, i + 1)
            ELSE VisitStops_Backwards(r, j, old_x, new_x, i + 1)

RECURSIVE VisitStops(_, _, _, _, _)
VisitStops(r, j, old_x, new_x, i) ==
    IF i > Len(r.self.stops) THEN r
    ELSE LET stop_x == r.self.stops[i].position[1] IN
         IF Crosses(old_x, stop_x, new_x)
         THEN LET s == stop_at(r.self, j, i) IN
              VisitStops([self |-> s.self, events |-> r.events \o s.events,
                          calls |-> r.calls \o s.calls], j, old_x, new_x, i + 1)
         ELSE VisitStops(r, j, old_x, new_x, i + 1)

Speed(bus, draw) == IF bus.speed > 0 THEN bus.speed ELSE draw

\* Turning only when more than one unit beyond the route.
Turns_Late(self, new_x) == ~(self.start - 1 <= new_x /\ new_x <= self.end + 1)

\* Turning already on the boundary of the route.
Turns_OnBoundary(self, new_x) == ~(self.start < new_x /\ new_x < self.end)

Turns(self, new_x) == ~(self.start <= new_x /\ new_x <= self.end)

update_bus(self, j, draw) ==
    LET bus == self.buses[j]
        speed == Speed(bus, draw)
        old_x == bus.position[1]
        old_y == bus.position[2]
        new_x == old_x + speed * bus.direction
        moved == [self EXCEPT !.buses[j].position = <<new_x, old_y>>]
        none == [self |-> moved, events |-> <<>>, calls |-> <<>>]
        stopped == IF bus.direction = 1 THEN VisitStops(none, j, old_x, new_x, 1) ELSE none
        decayed == update_stop_passengers_patience(stopped.self)
        turns == Turns(self, new_x)
    IN [self |-> IF turns THEN [decayed EXCEPT !.buses[j].direction = -bus.direction]
                 ELSE decayed,
        events |-> IF turns THEN stopped.events \o <<<<"turns", bus.name>>>>
                   ELSE stopped.events,
        calls |-> stopped.calls]

(***************************************************************************)
(* LinearBusRouteModel.update_stop: `draw` is random.random() in units of   *)
(* 1/RateScale and `dest` the index drawn for the destination stop.  The    *)
(* print() of another random integer changes nothing in the object.         *)
(***************************************************************************)
\* A stop absent from rates spawns on every tick.
update_stop_Unrated(self, i, draw, dest) ==
    LET stop == self.stops[i] IN
    IF stop.name \notin DOMAIN self.rates \/ self.rates[stop.name] > draw
    THEN LET destination == self.stops[dest].name
             name == RandomName(self.passenger_num)
             passenger == BusPassenger(name, stop.name, destination)
             ref == Len(self.heap) + 1
         IN [self |-> [self EXCEPT !.passenger_num = @ + 1,
                                   !.heap = Append(@, passenger),
                                   !.stops[i].passengers = Append(@, ref)],
             events |-> <<<<"waits", passenger.name, stop.name>>>>]
    ELSE [self |-> self, events |-> <<>>]

\* The spawned passenger's source and destination exchanged.
update_stop_WrongSource(self, i, draw, dest) ==
    LET stop == self.stops[i] IN
    IF stop.name \in DOMAIN self.rates /\ self.rates[stop.name] > draw
    THEN LET destination == self.stops[dest].name
             name == RandomName(self.passenger_num)
             passenger == BusPassenger(name, destination, stop.name)
             ref == Len(self.heap) + 1
         IN [self |-> [self EXCEPT !.passenger_num = @ + 1,
                                   !.heap = Append(@, passenger),
                                   !.stops[i].passengers = Append(@, ref)],
             events |-> <<<<"waits", passenger.name, stop.name>>>>]
    ELSE [self |-> self, events |-> <<>>]

update_stop(self, i, draw, dest) ==
    LET stop == self.stops[i] IN
    IF stop.name \in DOMAIN self.rates /\ self.rates[stop.name] > draw
    THEN LET destination == self.stops[dest].name
             name == RandomName(self.passenger_num)
             passenger == BusPassenger(name, stop.name, destination)
             ref == Len(self.heap) + 1
         IN [self |-> [self EXCEPT !.passenger_num = @ + 1,
                                   !.heap = Append(@, passenger),
                                   !.stops[i].passengers = Append(@, ref)],
             events |-> <<<<"waits", passenger.name, stop.name>>>>]
    ELSE [self |-> self, events |-> <<>>]

(***************************************************************************)
(* LinearBusRouteModel.update: all buses in order, then all stops in order. *)
(***************************************************************************)
RECURSIVE UpdateBuses(_, _, _)
UpdateBuses(r, speeds, j) ==
    IF j > Len(r.self.buses) THEN r
    ELSE LET b == update_bus(r.self, j, speeds[j]) IN
         UpdateBuses([self |-> b.self, events |-> r.events \o b.events,
                      calls |-> r.calls \o b.calls], speeds, j + 1)

RECURSIVE UpdateStops(_, _, _, _)
UpdateStops(r, draws, dests, i) ==
    IF i > Len(r.self.stops) THEN r
    ELSE LET s == update_stop(r.self, i, draws[i], dests[i]) IN
         UpdateStops([self |-> s.self, events |-> r.events \o s.events,
                      calls |-> r.calls], draws, dests, i + 1)

\* The stops spawn before the buses move.
update_StopsFirst(self, speeds, draws, dests) ==
    UpdateBuses(UpdateStops([self |-> self, events |-> <<>>, calls |-> <<>>], draws, dests, 1),
                speeds, 1)

update(self, speeds, draws, dests) ==
    UpdateStops(UpdateBuses([self |-> self, events |-> <<>>, calls |-> <<>>], speeds, 1),
                draws, dests, 1)

(***************************************************************************)
(* Construction (objects.py): the scenarios explored.  Two stops; the       *)
(* first holds passengers 1 and 2, in that order, both bound for the        *)
(* second stop; passenger 3 rides the first bus, or waits at the second     *)
(* stop when there is no bus.  BusStop.__init__ accepts a queue only when   *)
(* every passenger's source is the stop's name.                             *)
(***************************************************************************)
Bus(name, x, direction, speed, capacity, passengers) ==
    [name |-> name, position |-> <<x, 0>>, direction |-> direction,
     speed |-> speed, max_speed |-> MaxSpeed, capacity |-> capacity,
     passengers |-> passengers]

BusStop(name, x, passengers) ==
    [name |-> name, position |-> <<x, 0>>, passengers |-> passengers]

BusNetwork(start, end, stops, buses, rates, heap) ==
    [start |-> start, end |-> end, stops |-> stops, buses |-> buses,
     rates |-> rates, passenger_num |-> Unset, heap |-> heap]

FirstBus ==
    [x : {RouteStart}, direction : {1, -1},
     speed : 0..MaxSpeed, capacity : -1..MaxCapacity]

SecondBus ==
    [x : {RouteEnd}, direction : {-1}, speed : 1..MaxSpeed, capacity : {MaxCapacity}]

\* No rates at all; both stops spawning with probability 1/RateScale; or
\* the first stop with rate 0 and the second absent from rates.
RateChoices ==
    { <<>>, [n \in {StopName(1), StopName(2)} |-> 1], [n \in {StopName(1)} |-> 0] }

\* The buses and stop layout with which rates are combined.
Plain(x1, b1, b2) ==
    /\ x1 = RouteStart
    /\ b1.direction = 1 /\ b1.speed = 1 /\ b1.capacity \in {-1, MaxCapacity}
    /\ b2.speed = MaxSpeed

Given(k, source, destination, patience) ==
    [BusPassenger(GivenName(k), source, destination) EXCEPT !.patience = patience]

GivenPassengers ==
    << Given(1, StopName(1), StopName(2), 1),
       Given(2, StopName(1), StopName(2), MaxPatience),
       Given(3, StopName(2), StopName(2), 0) >>

Scenario(nb, x1, b1, b2, rates) ==
    LET stops == << BusStop(StopName(1), x1, <<1, 2>>),
                    BusStop(StopName(2), RouteStart + 1, IF nb = 0 THEN <<3>> ELSE <<>>) >>
        buses == [k \in 1..nb |->
                    IF k = 1
                    THEN Bus(BusName(1), b1.x, b1.direction, b1.speed, b1.capacity, <<3>>)
                    ELSE Bus(BusName(k), b2.x, b2.direction, b2.speed, b2.capacity, <<>>)]
    IN BusNetwork(RouteStart, RouteEnd, stops, buses, rates, GivenPassengers)

Init ==
    /\ \E nb \in 0..MaxBuses, x1 \in RouteStart..RouteEnd, b1 \in FirstBus, b2 \in SecondBus,
          rates \in RateChoices :
          /\ rates # <<>> => Plain(x1, b1, b2)
          /\ model = Scenario(nb, x1, b1, b2, rates)
    /\ events = <<>>
    /\ lastOp = "none"
    /\ pre = model
    /\ calls = <<>>
    /\ mark = <<>>
    /\ waited = [j \in 1..Len(model.buses) |-> [i \in 1..Len(model.stops) |-> 0]]

(***************************************************************************)
(* The two operations of the engine, called as animation.py calls them:     *)
(* init() once, then update() again and again (passenger_num exists only    *)
(* once init() has run).                                                    *)
(***************************************************************************)
NumGiven == Len(GivenPassengers)

\* The longest round trip of a bus of fixed speed, in update() calls: along
\* the route one unit at a time, one step beyond each end.
Period == 2 * (RouteEnd - RouteStart) + 4

WithinBounds(self) ==
    /\ Len(self.heap) <= NumGiven + MaxSpawn
    /\ \A j \in 1..Len(self.buses) :
          /\ self.buses[j].position[1] >= self.start - MaxOvershoot
          /\ self.buses[j].position[1] <= self.end + MaxOvershoot

\* No stop has a positive rate, no passenger is queued or aboard and no bus
\* has a randomised speed.
Idle(self) ==
    /\ \A n \in DOMAIN self.rates : self.rates[n] = 0
    /\ \A j \in 1..Len(self.buses) : self.buses[j].speed > 0
    /\ \A i \in 1..Len(self.stops) : self.stops[i].passengers = <<>>
    /\ \A j \in 1..Len(self.buses) : self.buses[j].passengers = <<>>

\* The bookmark after an update() with result r.
Marks(m, r) ==
    IF m # <<>>
    THEN {<<[at |-> m[1].at, ticked |-> TRUE, empty |-> m[1].empty \/ r.events = <<>>]>>}
    ELSE {<<>>} \cup (IF Idle(r.self)
                      THEN {<<[at |-> r.self, ticked |-> FALSE, empty |-> FALSE]>>}
                      ELSE {})

\* The update() calls since bus j last stopped at stop i, after an update()
\* with result r; counted for the buses of fixed speed, up to Period.
Waits(w, r) ==
    [j \in 1..Len(r.self.buses) |-> [i \in 1..Len(r.self.stops) |->
        IF r.self.buses[j].speed <= 0 THEN 0
        ELSE IF \E k \in 1..Len(r.calls) : r.calls[k].bus = j /\ r.calls[k].stop = i THEN 0
        ELSE Min(w[j][i] + 1, Period)]]

InitCall ==
    LET r == init(model) IN
    /\ lastOp = "none"
    /\ model' = r.self
    /\ events' = r.events
    /\ lastOp' = "init"
    /\ pre' = model
    /\ calls' = <<>>
    /\ mark' = mark
    /\ waited' = waited

\* The draws that are never read are fixed, so that each outcome is taken once.
Draws(self, speeds, draws, dests) ==
    /\ \A j \in 1..Len(self.buses) :
          /\ speeds[j] <= self.buses[j].max_speed
          /\ self.buses[j].speed > 0 => speeds[j] = 1
    /\ \A i \in 1..Len(self.stops) :
          /\ self.stops[i].name \notin DOMAIN self.rates => draws[i] = 0
          /\ ~(self.stops[i].name \in DOMAIN self.rates
                /\ self.rates[self.stops[i].name] > draws[i]) => dests[i] = 1

UpdateCall ==
    /\ model.passenger_num # Unset
    /\ \E speeds \in [1..Len(model.buses) -> 1..MaxSpeed],
          draws \in [1..Len(model.stops) -> 0..(RateScale - 1)],
          dests \in [1..Len(model.stops) -> 1..Len(model.stops)] :
          /\ Draws(model, speeds, draws, dests)
          /\ LET r == update(model, speeds, draws, dests) IN
             /\ WithinBounds(r.self)
             /\ model' = r.self
             /\ events' = r.events
             /\ lastOp' = "update"
             /\ pre' = model
             /\ calls' = r.calls
             /\ mark' \in Marks(mark, r)
             /\ waited' = Waits(waited, r)

Next == InitCall \/ UpdateCall

Spec == Init /\ [][Next]_vars

(***************************************************************************)
(* Properties.  A property of update() is read off the state after the     *)
(* call: `pre` is the object before it, `calls` lists its stop_at calls.    *)
(***************************************************************************)
Range(s) == {s[k] : k \in 1..Len(s)}

Updated == lastOp = "update"

Capacity(c) == model.buses[c.bus].capacity

Aboard(p) == \E j \in 1..Len(model.buses) : p \in Range(model.buses[j].passengers)

Queued(p) == \E i \in 1..Len(model.stops) : p \in Range(model.stops[i].passengers)

\* The passengers queued at some stop both before and after the last call.
StillQueued ==
    UNION {Range(pre.stops[i].passengers) \cap Range(model.stops[i].passengers) :
              i \in 1..Len(model.stops)}

\* C1 as stated: after every stop_at of a vehicle with capacity c >= 0 the
\* vehicle carries at most c passengers, whatever it carried before the call.
C1_AnyOnboardList ==
    Updated => \A c \in Range(calls) :
        Capacity(c) >= 0 => Len(c.onboardAfter) <= Capacity(c)

\* C1 amended: after every stop_at of a vehicle with capacity c >= 0 that
\* carried at most c passengers before the call, it carries at most c.
C1_CapacityKept ==
    Updated => \A c \in Range(calls) :
        (Capacity(c) >= 0 /\ Len(c.onboard) <= Capacity(c))
            => Len(c.onboardAfter) <= Capacity(c)

\* A stop_at that filled the vehicle to its capacity and left someone queued.
C1_Witness ==
    Updated /\ \E c \in Range(calls) :
        /\ Capacity(c) >= 0 /\ Len(c.onboard) <= Capacity(c)
        /\ c.boarding # <<>> /\ c.queueAfter # <<>>
        /\ Len(c.onboardAfter) = Capacity(c)

\* C2 as stated: one update() lowers the patience of every passenger who
\* stays queued exactly once, to max(patience - 1, 0), with any number of
\* vehicles.
C2_DecayOncePerTick ==
    Updated => \A p \in StillQueued :
        model.heap[p].patience = Max(pre.heap[p].patience - 1, 0)

\* C3 as stated: for every capacity, the passengers that board in a stop_at
\* are afterwards aboard and not queued, and the queue is left with exactly
\* the passengers that did not board, in their order.
C3_BoardedLeaveQueue ==
    Updated => \A c \in Range(calls) :
        /\ \A p \in Range(c.boarding) :
              p \in Range(c.onboardAfter) /\ p \notin Range(c.queueAfter)
        /\ c.queueAfter = SelectSeq(c.queue, LAMBDA p : p \notin Range(c.boarding))

BoardsIn(evs) == SelectSeq(evs, LAMBDA e : e[1] = "boards")

\* The room n = capacity - number staying of a stop_at call, from the
\* passengers' destinations.
Room(c) ==
    Capacity(c) - Len(SelectSeq(c.onboard,
        LAMBDA p : model.heap[p].destination # model.stops[c.stop].name))

C5_AlightedInNoContainer ==
    Updated => \A c \in Range(calls) : \A p \in Range(c.leaving) :
        ~Aboard(p) /\ ~Queued(p)

TurnsEvents(j) == SelectSeq(events, LAMBDA e : e = <<"turns", model.buses[j].name>>)

Outside(x) == x < model.start \/ x > model.end

\* C6: in every update() each vehicle ends at x' = x + speed * direction;
\* if x' is strictly outside [start, end] its direction is negated and one
\* 'turns' event is emitted for it, else its direction is kept and none is.
C6_Turnaround ==
    Updated => \A j \in 1..Len(model.buses) :
        LET old == pre.buses[j]
            new == model.buses[j]
        IN /\ \E s \in 1..old.max_speed :
                 /\ old.speed > 0 => s = old.speed
                 /\ new.position = <<old.position[1] + s * old.direction, old.position[2]>>
           /\ Outside(new.position[1]) =>
                 new.direction = -old.direction /\ Len(TurnsEvents(j)) = 1
           /\ ~Outside(new.position[1]) =>
                 new.direction = old.direction /\ Len(TurnsEvents(j)) = 0

\* A vehicle that overshot the end of the route by more than one and turned.
C6_Witness ==
    Updated /\ \E j \in 1..Len(model.buses) :
        /\ model.buses[j].position[1] > model.end + 1
        /\ pre.buses[j].direction = 1 /\ model.buses[j].direction = -1
        /\ Len(TurnsEvents(j)) = 1

\* C7: from one tick to the next the patience of a queued passenger never
\* increases, and it is never below 0.
C7_PatienceMonotone ==
    /\ \A i \in 1..Len(model.stops) : \A p \in Range(model.stops[i].passengers) :
          model.heap[p].patience >= 0
    /\ Updated => \A p \in StillQueued :
          model.heap[p].patience <= pre.heap[p].patience

\* A tick in which one queued passenger lost patience and another stayed at 0.
C7_Witness ==
    Updated /\ \E p, q \in StillQueued :
        /\ model.heap[p].patience < pre.heap[p].patience
        /\ pre.heap[q].patience = 0 /\ model.heap[q].patience = 0

RECURSIVE Listing(_, _, _)
Listing(kind, containers, heap) ==
    IF containers = <<>> THEN <<>>
    ELSE LET c == Head(containers) IN
         [k \in 1..Len(c.passengers) |-> <<kind, heap[c.passengers[k]].name, c.name>>]
         \o Listing(kind, Tail(containers), heap)

CycleClosed == mark # <<>> /\ mark[1].ticked /\ model = mark[1].at

\* C9 as stated: in a static scenario with nobody left to board or alight,
\* repeated update() calls eventually return []; so no cycle of update()
\* calls through an idle object is without an update() that returns [].
C9_EventuallyEmpty == CycleClosed => mark[1].empty

OneFixedSpeedBus ==
    Len(model.buses) <= 1 /\ \A j \in 1..Len(model.buses) : model.buses[j].speed > 0

\* C9 amended: in a static scenario with nobody left to board or alight and
\* at most one vehicle, of fixed positive speed and started inside
\* [start, end], repeated update() calls eventually return []: every cycle
\* of update() calls through an idle object has an update() that returns [].
C9_SingleVehicleEventuallyEmpty == (CycleClosed /\ OneFixedSpeedBus) => mark[1].empty

\* A closed cycle of an idle one-bus network, with an update() returning [].
C9_Witness ==
    /\ CycleClosed /\ mark[1].empty
    /\ Len(model.buses) = 1 /\ model.buses[1].speed > 0

BusIndex(n) == CHOOSE j \in 1..Len(model.buses) : model.buses[j].name = n

StopIndex(n) == CHOOSE i \in 1..Len(model.stops) : model.stops[i].name = n

\* The passengers created by the last call.
Spawned == (Len(pre.heap) + 1)..Len(model.heap)

C11_QueuedAtSource ==
    \A i \in 1..Len(model.stops) : \A p \in Range(model.stops[i].passengers) :
        model.heap[p].source = model.stops[i].name

\* A tick with a boarding that left someone queued, after which a passenger
\* spawned for another stop is queued too.
C11_Witness ==
    /\ Updated
    /\ \E c \in Range(calls) : c.boarding # <<>> /\ c.queueAfter # <<>>
    /\ \E p \in NumGiven + 1 .. Len(model.heap) :
          Queued(p) /\ model.heap[p].destination # model.heap[p].source

\* The passengers spawned so far, in the order of their creation.
SpawnedSoFar == [k \in 1..(Len(model.heap) - NumGiven) |-> model.heap[NumGiven + k]]

\* C12: after init(), the k-th passenger spawned is named 'random' followed
\* by k - 1, the spawn counter is the number spawned so far and grows in an
\* update() by one per passenger spawned in it, and no two spawned passengers
\* have the same name.
C12_SpawnNames ==
    model.passenger_num # Unset =>
        /\ model.passenger_num = Len(SpawnedSoFar)
        /\ \A k \in 1..Len(SpawnedSoFar) : SpawnedSoFar[k].name = RandomName(k - 1)
        /\ \A k, l \in 1..Len(SpawnedSoFar) :
              SpawnedSoFar[k].name = SpawnedSoFar[l].name => k = l
        /\ Updated => model.passenger_num = pre.passenger_num + Cardinality(Spawned)

\* A second spawn in a later tick than the first.
C12_Witness ==
    /\ Updated /\ pre.passenger_num = 1 /\ model.passenger_num = 2
    /\ SpawnedSoFar[2].name = <<"random", 1>>

\* The passengers of an onboard list bound, or not bound, for stop i.
BoundFor(onboard, i) ==
    SelectSeq(onboard, LAMBDA p : model.heap[p].destination = model.stops[i].name)

NotBoundFor(onboard, i) ==
    SelectSeq(onboard, LAMBDA p : model.heap[p].destination # model.stops[i].name)

\* C13 as stated: in a stop_at with capacity >= 0 whose boarding count,
\* capacity less the number staying, is 0 or negative, nobody boards: no
\* 'boards' event, the queue unchanged, and the vehicle left with exactly
\* the staying passengers.
C13_NoRoomNoBoarding ==
    Updated => \A c \in Range(calls) :
        (Capacity(c) >= 0 /\ Room(c) <= 0) =>
            /\ c.boarding = <<>> /\ BoardsIn(c.events) = <<>>
            /\ c.queueAfter = c.queue
            /\ c.onboardAfter = NotBoundFor(c.onboard, c.stop)

\* The stop_at calls of bus j at stop i in the last update().
CallsAt(j, i) == SelectSeq(calls, LAMBDA c : c.bus = j /\ c.stop = i)

StopsEvents(j, i) ==
    SelectSeq(events, LAMBDA e : e = <<"stops", model.buses[j].name, model.stops[i].name>>)

\* The queue of stop i without the passengers spawned in the last update().
QueueOfOld(i) == SelectSeq(model.stops[i].passengers, LAMBDA p : p \notin Spawned)

\* C14: in an update() vehicle j stops at stop i (one stop_at call and one
\* 'stops' event) exactly when its direction at the start of the tick is +1
\* and old_x < stop_x <= new_x; every 'stops', 'alights' and 'boards' event
\* of the tick is emitted by such a stop_at; a vehicle whose direction is -1
\* keeps its passenger list, and a stop at which no vehicle stopped keeps
\* its queue's members and order.
C14_StopsOnlyRightward ==
    Updated =>
        /\ \A j \in 1..Len(model.buses) : \A i \in 1..Len(model.stops) :
              LET stop_x == model.stops[i].position[1]
                  n == IF /\ pre.buses[j].direction = 1
                          /\ pre.buses[j].position[1] < stop_x
                          /\ stop_x <= model.buses[j].position[1]
                       THEN 1 ELSE 0
              IN Len(CallsAt(j, i)) = n /\ Len(StopsEvents(j, i)) = n
        /\ SelectSeq(events, LAMBDA e : e[1] \in {"stops", "alights", "boards"})
              = Flatten([k \in 1..Len(calls) |-> calls[k].events])
        /\ \A j \in 1..Len(model.buses) : pre.buses[j].direction = -1 =>
              model.buses[j].passengers = pre.buses[j].passengers
        /\ \A i \in 1..Len(model.stops) :
              (\A j \in 1..Len(model.buses) : CallsAt(j, i) = <<>>) =>
                  QueueOfOld(i) = pre.stops[i].passengers

\* A tick in which a leftward vehicle with a passenger passes a stop with a
\* queue while a rightward vehicle stops at another stop.
C14_Witness ==
    /\ Updated
    /\ \E j \in 1..Len(model.buses) : \E i \in 1..Len(model.stops) :
          /\ pre.buses[j].direction = -1 /\ pre.buses[j].passengers # <<>>
          /\ model.buses[j].position[1] <= model.stops[i].position[1]
          /\ model.stops[i].position[1] < pre.buses[j].position[1]
          /\ pre.stops[i].passengers # <<>>
    /\ calls # <<>>

\* C15: a stop_at emits one 'stops' event, then an 'alights' event for each
\* onboard passenger bound for the stop and for no other, in onboard order,
\* then a 'boards' event for each boarding passenger in boarding order; the
\* vehicle is left with the staying passengers in their order followed by
\* the boarding passengers.
C15_StopAtEvents ==
    Updated => \A c \in Range(calls) :
        LET stop == model.stops[c.stop]
            leaving == BoundFor(c.onboard, c.stop)
        IN /\ c.events =
                 <<<<"stops", model.buses[c.bus].name, stop.name>>>>
                 \o [k \in 1..Len(leaving) |->
                        <<"alights", model.heap[leaving[k]].name, stop.name>>]
                 \o [k \in 1..Len(c.boarding) |->
                        <<"boards", model.heap[c.boarding[k]].name, stop.name>>]
           /\ c.onboardAfter = NotBoundFor(c.onboard, c.stop) \o c.boarding
           /\ \A k \in 1..Len(c.boarding) : c.boarding[k] = c.queue[k]

\* A stop_at at which someone alighted, someone stayed aboard and someone
\* boarded.
C15_Witness ==
    Updated /\ \E c \in Range(calls) :
        /\ BoundFor(c.onboard, c.stop) # <<>>
        /\ NotBoundFor(c.onboard, c.stop) # <<>>
        /\ c.boarding # <<>>

\* The stop_at calls of bus j in the last update(), in the order made.
CallsOf(j) == SelectSeq(calls, LAMBDA c : c.bus = j)

\* The stop_at calls at stop i in the last update(), in the order made.
CallsAtStop(i) == SelectSeq(calls, LAMBDA c : c.stop = i)

\* C16: the stops a vehicle crosses in one tick are handled in the order of
\* the network's stop list, whatever their positions; each stop_at starts
\* from the passenger list the previous one left in the vehicle (and from
\* the queue the previous stop_at at that stop left), and emits its own
\* group of events.
C16_StopsInIterationOrder ==
    Updated =>
        /\ \A a, b \in 1..Len(calls) : a < b =>
              \/ calls[a].bus < calls[b].bus
              \/ calls[a].bus = calls[b].bus /\ calls[a].stop < calls[b].stop
        /\ \A j \in 1..Len(model.buses) :
              LET cs == CallsOf(j) IN
              /\ \A k \in 1..Len(cs) :
                    cs[k].onboard = IF k = 1 THEN pre.buses[j].passengers
                                    ELSE cs[k - 1].onboardAfter
              /\ model.buses[j].passengers =
                    IF cs = <<>> THEN pre.buses[j].passengers ELSE cs[Len(cs)].onboardAfter
        /\ \A i \in 1..Len(model.stops) :
              LET cs == CallsAtStop(i) IN
              /\ \A k \in 1..Len(cs) :
                    cs[k].queue = IF k = 1 THEN pre.stops[i].passengers
                                  ELSE cs[k - 1].queueAfter
              /\ QueueOfOld(i) =
                    IF cs = <<>> THEN pre.stops[i].passengers ELSE cs[Len(cs)].queueAfter
        /\ SelectSeq(events, LAMBDA e : e[1] \in {"stops", "alights", "boards"})
              = Flatten([k \in 1..Len(calls) |-> calls[k].events])

\* A vehicle that, in one tick, took a passenger aboard at a stop and let it
\* alight at a stop later in the list but nearer the start of the route.
C16_Witness ==
    Updated /\ \E a, b \in 1..Len(calls) :
        /\ a < b /\ calls[a].bus = calls[b].bus
        /\ model.stops[calls[a].stop].position[1] > model.stops[calls[b].stop].position[1]
        /\ Range(calls[a].boarding) \cap Range(calls[b].leaving) # {}

\* The passengers spawned at stop i in the last update().
NewAt(i) == SelectSeq(model.stops[i].passengers, LAMBDA p : p \in Spawned)

WaitsAt(i) == SelectSeq(events, LAMBDA e : e[1] = "waits" /\ e[3] = model.stops[i].name)

LongestStep(bus) == IF bus.speed > 0 THEN bus.speed ELSE bus.max_speed

WithinOneStep(bus) ==
    /\ model.start - LongestStep(bus) <= bus.position[1]
    /\ bus.position[1] <= model.end + LongestStep(bus)

\* C18 as stated: a vehicle that starts inside [start, end] is in every
\* state within one longest step S of the route, start - S <= x <= end + S,
\* S being its speed or, for a vehicle of randomised speed, its max_speed.
C18_WithinOneStep ==
    \A j \in 1..Len(model.buses) : WithinOneStep(model.buses[j])

\* C18 amended: a vehicle of fixed positive speed S that starts inside
\* [start, end] is in every state within start - S <= x <= end + S.
C18_FixedSpeedWithinOneStep ==
    \A j \in 1..Len(model.buses) :
        model.buses[j].speed > 0 => WithinOneStep(model.buses[j])

\* A vehicle of fixed speed that has just gone a whole step beyond the end
\* of the route and turned back.
C18_Witness ==
    Updated /\ \E j \in 1..Len(model.buses) :
        /\ model.buses[j].speed > 1
        /\ pre.buses[j].position[1] = model.end /\ pre.buses[j].direction = 1
        /\ model.buses[j].position[1] = model.end + model.buses[j].speed
        /\ model.buses[j].direction = -1

\* The stops located on the route.
OnRoute(i) ==
    /\ model.start <= model.stops[i].position[1]
    /\ model.stops[i].position[1] <= model.end

\* C19: a vehicle of fixed positive speed that started inside [start, end]
\* stops at every stop located in [start, end] again and again under
\* repeated update() calls: never do Period consecutive calls pass without
\* it stopping there; and at each such stop every passenger aboard who is
\* bound for it alights.
C19_CrossesEveryStop ==
    /\ \A j \in 1..Len(model.buses) : \A i \in 1..Len(model.stops) :
          (model.buses[j].speed > 0 /\ OnRoute(i)) => waited[j][i] < Period
    /\ Updated => \A c \in Range(calls) :
          \A p \in Range(BoundFor(c.onboard, c.stop)) :
              /\ p \in Range(c.leaving)
              /\ \E k \in 1..Len(c.events) :
                    c.events[k] = <<"alights", model.heap[p].name, model.stops[c.stop].name>>

\* A vehicle of fixed speed is back at a stop on the route where, a round
\* trip earlier, it took aboard a passenger spawned there and bound for that
\* same stop, and the passenger alights.
C19_Witness ==
    Updated /\ \E c \in Range(calls) :
        /\ model.buses[c.bus].speed > 0 /\ OnRoute(c.stop)
        /\ \E p \in Range(c.leaving) :
              /\ p > NumGiven
              /\ model.heap[p].source = model.stops[c.stop].name

\* The passengers in some stop's queue, or aboard some vehicle, before the
\* last call.
QueuedBefore(p) == \E i \in 1..Len(pre.stops) : p \in Range(pre.stops[i].passengers)

AboardBefore(p) == \E j \in 1..Len(pre.buses) : p \in Range(pre.buses[j].passengers)

\* C20 as stated: an update() changes the patience only of passengers who
\* are queued at a stop; the patience of a passenger aboard a vehicle is
\* left as it was; and a stop_at changes nothing but the passenger lists of
\* its vehicle and its stop (no patience, position or direction).
C20_AboardPatienceKept ==
    Updated =>
        /\ \A p \in 1..Len(pre.heap) :
              /\ model.heap[p].patience # pre.heap[p].patience => QueuedBefore(p)
              /\ AboardBefore(p) => model.heap[p].patience = pre.heap[p].patience
        /\ \A c \in Range(calls) : c.restKept

====
